---- MODULE Spec2Model ----
(***************************************************************************)
(* The goat repository of Yagi_backend: the pooled-connection store        *)
(* (src/src/db.rs) and the four HTTP handlers that read and write it       *)
(* (src/src/handlers/goats.rs).                                            *)
(*                                                                         *)
(* Store semantics.  Every request runs on its own pooled SQLite           *)
(* connection in WAL mode.  rusqlite's conn.transaction() is BEGIN         *)
(* DEFERRED: the transaction takes its snapshot and the database's single  *)
(* write lock at its first statement, which is a write in add_goat and     *)
(* update_goat.  Its changes live in the connection's working copy (txn)   *)
(* and reach the committed store (db) at COMMIT; dropping the Transaction  *)
(* on an early `?` return rolls it back.  A statement outside a            *)
(* transaction (delete_goat, get_goats, each query of load_goat_details)   *)
(* is its own autocommit transaction and sees the store as committed at    *)
(* that moment.                                                            *)
(*                                                                         *)
(* The schema (migrations) is not part of the sources.  The tables are     *)
(* modelled as the plain shape the specification gives: rowid primary      *)
(* keys, link rows that are bare pairs, no foreign key, no cascade.  The   *)
(* unique constraint the specification puts on reference names is not     *)
(* relied on: the store of the model accepts any row, so where names stay  *)
(* unique it is the code that keeps them so.                               *)
(***************************************************************************)
EXTENDS Integers, Sequences, FiniteSets, Bags, TLC

\* ---------------------------------------------------------------- bounds
NumProcs == 2     \* requests in flight at once
MaxId == 2        \* the goat ids the writers hand out run from 1 to this
MaxReadId == 1    \* the same, while a connection reads
MaxDuring == 2    \* the contents of its goat one load lives through
MaxVacc == 2      \* vaccinations of one request
MaxDis == 1       \* diseases of one request
MaxRefId == 1     \* the ids a request gives a reference run from 1 to this
MaxVLinks == 3    \* rows of goat_vaccines
MaxDLinks == 1    \* rows of goat_diseases
MaxAbort == 1     \* references the loops get through before a statement fails
MaxPool == 2      \* connections of the pool

Procs == 1..NumProcs
GoatNames == {"x", "y"}
\* one value standing for the nine scalar columns other than id and name
GoatData == {"d0", "d1"}
VaccineNames == {"va", "vb"}
DiseaseNames == {"da"}

\* Option<i64>::None of VaccineRef.id / DiseaseRef.id (row ids start at 1)
NoId == 0

\* the references a request can carry: by name (id absent) or with an id
VaccineRefs ==
    [id : {NoId}, name : VaccineNames] \cup [id : 1..MaxRefId, name : {"va"}]
DiseaseRefs == [id : {NoId}, name : DiseaseNames]

SeqsUpTo(S, n) == UNION {[1..k -> S] : k \in 0..n}
\* the vaccinations and the diseases a request can list
VaccLists == SeqsUpTo(VaccineRefs, MaxVacc)
DisLists == SeqsUpTo(DiseaseRefs, MaxDis)

VARIABLES
    db,      \* the committed store: the five tables
    pc,      \* pc[p]: where request p is in its handler
    op,      \* op[p]: the operation request p runs
    req,     \* req[p]: the name and scalar fields of the request being written
    txn,     \* txn[p]: the working copy of p's open transaction
    gid,     \* gid[p]: the local goat_id of the handler
    result,  \* result[p]: the outcome the handler returned
    loaded,  \* loaded[p]: the Goat structs built by a read
    hist,    \* hist[p]: what each committed store during p's load holds of its goat
    deleted, \* history: the goat ids that were in goats and were deleted
    codec,   \* the codec, or a row written and read, at work: variant, input, result
    handle,  \* the DbPool that DbPool::new returned, and the journal mode of the file
    mutex,   \* the Mutex<Connection> of the mutex-guarded variant
    thread,  \* thread[p]: a caller of the mutex-guarded variant's DbPool
    pool     \* the r2d2 pool: its idle connections, the requests inside get()

vars == <<db, pc, op, req, txn, gid, result, loaded, hist, deleted, codec,
         handle, mutex, thread, pool>>

\* what the requests of the server leave alone
apart == <<codec, handle, mutex, thread, pool>>
aside == <<deleted, codec, handle, mutex, thread, pool>>
\* what a request leaves alone when the pool's connections are counted
beside == <<deleted, codec, handle, mutex, thread>>

\* ---------------------------------------------------------------- tables
EmptyDb ==
    [goats |-> {}, vaccines |-> {}, diseases |-> {},
     goat_vaccines |-> EmptyBag, goat_diseases |-> EmptyBag]

NoReq == [name |-> "", data |-> ""]

\* the mutex with no holder, and a thread that is in no call
NoThread == 0
MutexFree == [holder |-> NoThread, poisoned |-> FALSE]
NoCall == [pc |-> "idle", goat_id |-> NoId, goat |-> {}, result |-> "none"]

\* Pool::new(manager): a pool of size connections, all idle, no request in get()
PoolOf(size) == [size |-> size, idle |-> size, waiting |-> {}]

MaxOf(S) == IF S = {} THEN 0 ELSE CHOOSE m \in S : \A x \in S : x <= m
MinOf(S) == IF S = {} THEN 0 ELSE CHOOSE m \in S : \A x \in S : m <= x

Ids(table) == {r.id : r \in table}

\* tx.last_insert_rowid() after an INSERT that names no id: SQLite gives a
\* rowid table the largest id in it plus one
last_insert_rowid(table) == MaxOf(Ids(table)) + 1

\* ---------------------------------------------------------------- schema
\* What the store itself enforces.  The schema is not in the sources; these are
\* the plain tables of the specification: link rows are bare (goat id,
\* reference id) pairs whose uniqueness the store need not enforce, with no
\* foreign key and no cascading delete.
LinkPairUnique == FALSE
ForeignKeys == FALSE
CascadeDelete == FALSE

VLink(g, v) == [goat_id |-> g, vaccine_id |-> v]
DLink(g, d) == [goat_id |-> g, disease_id |-> d]

\* INSERT INTO goat_vaccines / goat_diseases is refused by the store: a foreign
\* key names no row, or the pair is already there
LinkRefused(links, row, ref_id, ref_table) ==
    \/ ForeignKeys /\ ref_id \notin Ids(ref_table)
    \/ LinkPairUnique /\ row \in DOMAIN links

InsertLinkDropped(links, row) == links

\* INSERT INTO goat_vaccines / goat_diseases: one more row
InsertLink(links, row) == links (+) SetToBag({row})

\* INSERT OR IGNORE INTO goat_vaccines / goat_diseases: a row the store refuses
\* is skipped
InsertOrIgnoreLink(links, row, ref_id, ref_table) ==
    IF LinkRefused(links, row, ref_id, ref_table) THEN links ELSE InsertLink(links, row)

\* DELETE FROM <link table> WHERE goat_id = g
DeleteLinks(links, g) ==
    [row \in {r \in DOMAIN links : r.goat_id # g} |-> links[row]]

LinksOf(links, g) ==
    [row \in {r \in DOMAIN links : r.goat_id = g} |-> links[row]]

\* ---------------------------------------------------------------- resolver
FirstIdNamed(table, name) == MinOf({r.id : r \in {t \in table : t.name = name}})

get_or_insert_always_inserts(table, ref) ==
    IF ref.id # NoId
    THEN [id |-> ref.id, table |-> table]
    ELSE [id |-> last_insert_rowid(table),
          table |-> table \cup {[id |-> last_insert_rowid(table), name |-> ref.name]}]

\* get_or_insert_vaccine: an id the reference carries is returned as it is;
\* else the id of the row with that name; else a new row is inserted
get_or_insert_vaccine(table, ref) ==
    IF ref.id # NoId
    THEN [id |-> ref.id, table |-> table]
    ELSE IF \E r \in table : r.name = ref.name
         THEN [id |-> FirstIdNamed(table, ref.name), table |-> table]
         ELSE [id |-> last_insert_rowid(table),
               table |-> table \cup {[id |-> last_insert_rowid(table), name |-> ref.name]}]

\* get_or_insert_disease: the same code on the diseases table
get_or_insert_disease(table, ref) ==
    IF ref.id # NoId
    THEN [id |-> ref.id, table |-> table]
    ELSE IF \E r \in table : r.name = ref.name
         THEN [id |-> FirstIdNamed(table, ref.name), table |-> table]
         ELSE [id |-> last_insert_rowid(table),
               table |-> table \cup {[id |-> last_insert_rowid(table), name |-> ref.name]}]

\* ---------------------------------------------------------------- the link loops
\* A loop's result: the working copy after it, and ok = FALSE when a statement
\* of it failed (`?` returned the error on the spot).
RECURSIVE AddVaccineLinks(_, _, _)
\* add_goat: for vaccine in &new_goat.vaccinations { resolve; INSERT link }
AddVaccineLinks(t, g, refs) ==
    IF refs = <<>> THEN [ok |-> TRUE, t |-> t]
    ELSE LET r == get_or_insert_vaccine(t.vaccines, Head(refs))
             t1 == [t EXCEPT !.vaccines = r.table]
         IN IF LinkRefused(t.goat_vaccines, VLink(g, r.id), r.id, r.table)
            THEN [ok |-> FALSE, t |-> t1]
            ELSE AddVaccineLinks(
                     [t1 EXCEPT !.goat_vaccines = InsertLink(@, VLink(g, r.id))],
                     g, Tail(refs))

RECURSIVE AddDiseaseLinks(_, _, _)
\* add_goat: for disease in &new_goat.diseases { resolve; INSERT link }
AddDiseaseLinks(t, g, refs) ==
    IF refs = <<>> THEN [ok |-> TRUE, t |-> t]
    ELSE LET r == get_or_insert_disease(t.diseases, Head(refs))
             t1 == [t EXCEPT !.diseases = r.table]
         IN IF LinkRefused(t.goat_diseases, DLink(g, r.id), r.id, r.table)
            THEN [ok |-> FALSE, t |-> t1]
            ELSE AddDiseaseLinks(
                     [t1 EXCEPT !.goat_diseases = InsertLink(@, DLink(g, r.id))],
                     g, Tail(refs))

RECURSIVE UpdVaccineLinks(_, _, _)
\* update_goat: for vaccine in &goat.vaccinations { resolve; INSERT OR IGNORE }
UpdVaccineLinks(t, g, refs) ==
    IF refs = <<>> THEN t
    ELSE LET r == get_or_insert_vaccine(t.vaccines, Head(refs))
         IN UpdVaccineLinks(
                [t EXCEPT !.vaccines = r.table,
                          !.goat_vaccines =
                              InsertOrIgnoreLink(@, VLink(g, r.id), r.id, r.table)],
                g, Tail(refs))

RECURSIVE UpdDiseaseLinks(_, _, _)
\* update_goat: for disease in &goat.diseases { resolve; INSERT OR IGNORE }
UpdDiseaseLinks(t, g, refs) ==
    IF refs = <<>> THEN t
    ELSE LET r == get_or_insert_disease(t.diseases, Head(refs))
         IN UpdDiseaseLinks(
                [t EXCEPT !.diseases = r.table,
                          !.goat_diseases =
                              InsertOrIgnoreLink(@, DLink(g, r.id), r.id, r.table)],
                g, Tail(refs))

\* the model keeps the link tables within their bounds
WithinLinkBounds(t) ==
    /\ BagCardinality(t.goat_vaccines) <= MaxVLinks
    /\ BagCardinality(t.goat_diseases) <= MaxDLinks

\* ---------------------------------------------------------------- transactions
InTxnPcs == {"add_links", "upd_links"}
InFlightPcs == InTxnPcs \cup {"add_base", "upd_base", "load_base", "load_vacc", "load_dis"}

\* p's connection holds the database's write lock: its transaction has written
HoldsWriteLock(p) == pc[p] \in InTxnPcs

WriteLockAlwaysFree == TRUE

\* the first write statement of a transaction gets the write lock only when no
\* other connection holds it (until then it waits, or fails busy: Fail)
WriteLockFree == \A q \in Procs : ~HoldsWriteLock(q)

RollbackKeepsWork(committed, working) == working

\* the Transaction is dropped without commit (an early `?` return, or COMMIT
\* itself failing): ROLLBACK, the working copy is discarded
Rollback(committed, working) == committed

\* tx.commit(): the working copy becomes the committed store
Commit(committed, working) == working

\* ---------------------------------------------------------------- enum codec
\* A text is the sequence of its characters.  The two variants of db_helpers:
\* "pool" is src/src, "mutex" is src/backend/src.
Variants == {"pool", "mutex"}

Lower == <<"a", "b", "c", "d", "e", "f", "g", "h", "i", "j", "k", "l", "m",
           "n", "o", "p", "q", "r", "s", "t", "u", "v", "w", "x", "y", "z">>
Upper == <<"A", "B", "C", "D", "E", "F", "G", "H", "I", "J", "K", "L", "M",
           "N", "O", "P", "Q", "R", "S", "T", "U", "V", "W", "X", "Y", "Z">>

\* str::to_lowercase, character by character
to_lowercase(s) ==
    [i \in DOMAIN s |->
        IF \E k \in DOMAIN Upper : Upper[k] = s[i]
        THEN Lower[CHOOSE k \in DOMAIN Upper : Upper[k] = s[i]]
        ELSE s[i]]

to_uppercase(s) ==
    [i \in DOMAIN s |->
        IF \E k \in DOMAIN Lower : Lower[k] = s[i]
        THEN Upper[CHOOSE k \in DOMAIN Lower : Lower[k] = s[i]]
        ELSE s[i]]

\* enum Gender
Genders == {"Male", "Female"}

\* enum Breed: ten named variants and Other(String)
BreedLabels ==
    <<
       <<"Beetal", <<"B", "e", "e", "t", "a", "l">>>>,
       <<"Jamunapari", <<"J", "a", "m", "u", "n", "a", "p", "a", "r", "i">>>>,
       <<"Barbari", <<"B", "a", "r", "b", "a", "r", "i">>>>,
       <<"Sirohi", <<"S", "i", "r", "o", "h", "i">>>>,
       <<"Osmanabadi", <<"O", "s", "m", "a", "n", "a", "b", "a", "d", "i">>>>,
       <<"BlackBengal", <<"B", "l", "a", "c", "k", "B", "e", "n", "g", "a", "l">>>>,
       <<"Kutchi", <<"K", "u", "t", "c", "h", "i">>>>,
       <<"Kaghani", <<"K", "a", "g", "h", "a", "n", "i">>>>,
       <<"Chegu", <<"C", "h", "e", "g", "u">>>>,
       <<"Jakhrana", <<"J", "a", "k", "h", "r", "a", "n", "a">>>>
    >>
Named(tag) == [tag |-> tag, name |-> <<>>]
Other(text) == [tag |-> "Other", name |-> text]
NamedBreeds == {Named(BreedLabels[k][1]) : k \in DOMAIN BreedLabels}

Ok(value) == [ok |-> TRUE, value |-> value, error |-> "none"]

\* ParseEnumError::new(input, target_enum) inside AppError::ParseError
ParseEnumError(input, target_enum) ==
    [ok |-> FALSE, error |-> "ParseError", input |-> input, target_enum |-> target_enum]

\* gender_to_str: "Male" / "Female" in the pool variant, "male" / "female" in
\* the mutex variant
gender_to_str(variant, gender) ==
    IF variant = "pool"
    THEN (IF gender = "Male" THEN <<"M", "a", "l", "e">>
                             ELSE <<"F", "e", "m", "a", "l", "e">>)
    ELSE (IF gender = "Male" THEN <<"m", "a", "l", "e">>
                             ELSE <<"f", "e", "m", "a", "l", "e">>)

\* str_to_gender: the pool variant matches s, the mutex variant matches
\* s.to_lowercase(); `other` is the text that was matched
str_to_gender(variant, s) ==
    IF variant = "pool"
    THEN CASE s = <<"M", "a", "l", "e">> -> Ok("Male")
           [] s = <<"F", "e", "m", "a", "l", "e">> -> Ok("Female")
           [] OTHER -> ParseEnumError(s, "Gender")
    ELSE LET other == to_lowercase(s)
         IN CASE other = <<"m", "a", "l", "e">> -> Ok("Male")
              [] other = <<"f", "e", "m", "a", "l", "e">> -> Ok("Female")
              [] OTHER -> ParseEnumError(other, "Gender")

str_to_breed_caseless(variant, s) ==
    IF \E k \in DOMAIN BreedLabels : to_lowercase(BreedLabels[k][2]) = to_lowercase(s)
    THEN Ok(Named(BreedLabels[CHOOSE k \in DOMAIN BreedLabels :
                                 to_lowercase(BreedLabels[k][2]) = to_lowercase(s)][1]))
    ELSE Ok(Other(s))

\* str_to_breed, the same in both variants: the named breed of an exact label,
\* Other(other.to_string()) for every other text
str_to_breed(variant, s) ==
    IF \E k \in DOMAIN BreedLabels : BreedLabels[k][2] = s
    THEN Ok(Named(BreedLabels[CHOOSE k \in DOMAIN BreedLabels : BreedLabels[k][2] = s][1]))
    ELSE Ok(Other(s))

breed_to_str_tag(variant, breed) ==
    IF breed.tag = "Other"
    THEN <<"O", "t", "h", "e", "r">>
    ELSE BreedLabels[CHOOSE k \in DOMAIN BreedLabels : BreedLabels[k][1] = breed.tag][2]

\* breed_to_str, the same in both variants: the label of a named breed, the
\* carried text of Other
breed_to_str(variant, breed) ==
    IF breed.tag = "Other"
    THEN breed.name
    ELSE BreedLabels[CHOOSE k \in DOMAIN BreedLabels : BreedLabels[k][1] = breed.tag][2]

\* the codec before it is given a text
NoCodec == [variant |-> "pool", text |-> <<>>, op |-> "none", arg |-> "none", out |-> Ok("none")]

\* The scalar columns of a row are one value, data; its gender column is the
\* text the writer of the row encoded: gender_to_str of the pool variant for
\* the rows of this server, gender_to_str of the mutex variant for the rows
\* stored through that variant, which works on the same store file.
BackendData == "b0"
gender_column(data) ==
    CASE data = "d0" -> gender_to_str("pool", "Male")
      [] data = "d1" -> gender_to_str("pool", "Female")
      [] OTHER -> gender_to_str("mutex", "Male")

\* let gender = str_to_gender(&gender_str)?
row_to_goat_error(row) == str_to_gender("pool", gender_column(row.data)).error

\* the closure of query_row / query_map wraps the error of row_to_goat into
\* rusqlite::Error::ToSqlConversionFailure, and `?` makes AppError::DbError of
\* every rusqlite::Error
query_error(rows) ==
    IF \E r \in rows : row_to_goat_error(r) # "none" THEN "DbError" ELSE "none"

row_to_goat_blank(row) ==
    [id |-> NoId, name |-> "", data |-> "",
     vaccinations |-> EmptyBag, diseases |-> EmptyBag]

\* row_to_goat: the scalar columns, and both relations left empty
row_to_goat(row) ==
    [id |-> row.id, name |-> row.name, data |-> row.data,
     vaccinations |-> EmptyBag, diseases |-> EmptyBag]

\* fetch_vaccines: SELECT v.id, v.name FROM vaccines v INNER JOIN goat_vaccines
\* gv ON v.id = gv.vaccine_id WHERE gv.goat_id = ?1, one VaccineRef per row
fetch_vaccines(d, goat_id) ==
    [v \in {r \in d.vaccines : VLink(goat_id, r.id) \in DOMAIN d.goat_vaccines}
        |-> d.goat_vaccines[VLink(goat_id, v.id)]]

\* fetch_diseases: the same join on diseases and goat_diseases
fetch_diseases(d, goat_id) ==
    [v \in {r \in d.diseases : DLink(goat_id, r.id) \in DOMAIN d.goat_diseases}
        |-> d.goat_diseases[DLink(goat_id, v.id)]]

\* what a store holds of goat goat_id: its base row with both relations, or
\* nothing
Details(d, goat_id) ==
    {[row_to_goat(r) EXCEPT !.vaccinations = fetch_vaccines(d, goat_id),
                            !.diseases = fetch_diseases(d, goat_id)]
        : r \in {g \in d.goats : g.id = goat_id}}

\* hist: what the committed stores a load in progress has lived through hold
\* of its goat
Record(newdb) ==
    [q \in Procs |->
        IF pc[q] \in {"load_vacc", "load_dis"}
        THEN hist[q] \cup {Details(newdb, gid[q])}
        ELSE hist[q]]

FinishLeavesOpen(p, outcome) ==
    /\ pc' = [pc EXCEPT ![p] = "done"]
    /\ result' = [result EXCEPT ![p] = outcome]
    /\ req' = [req EXCEPT ![p] = NoReq]
    /\ txn' = txn
    /\ gid' = [gid EXCEPT ![p] = NoId]

\* the handler returns: its locals are dropped (an open Transaction rolls
\* back, the connection is released), the outcome stays until Return
Finish(p, outcome) ==
    /\ pc' = [pc EXCEPT ![p] = "done"]
    /\ result' = [result EXCEPT ![p] = outcome]
    /\ req' = [req EXCEPT ![p] = NoReq]
    /\ txn' = [txn EXCEPT ![p] = EmptyDb]
    /\ gid' = [gid EXCEPT ![p] = NoId]

\* ---------------------------------------------------------------- Init
InitServer ==
    /\ db = EmptyDb
    /\ pc = [p \in Procs |-> "idle"]
    /\ op = [p \in Procs |-> "none"]
    /\ req = [p \in Procs |-> NoReq]
    /\ txn = [p \in Procs |-> EmptyDb]
    /\ gid = [p \in Procs |-> NoId]
    /\ result = [p \in Procs |-> "none"]
    /\ loaded = [p \in Procs |-> {}]
    /\ hist = [p \in Procs |-> {}]
    /\ deleted = {}

\* the server is up: DbPool::new("livestock.db") has returned its pool
Init ==
    /\ InitServer
    /\ codec = NoCodec
    /\ handle = [state |-> "open", variant |-> "pool", journal_mode |-> "wal", error |-> "none"]
    /\ mutex = MutexFree
    /\ thread = [p \in Procs |-> NoCall]
    /\ pool = PoolOf(MaxPool)

\* ---------------------------------------------------------------- add_goat
\* POST /goats arrives: get_conn, conn.transaction() (BEGIN DEFERRED)
StartAdd(p) ==
    /\ pc[p] = "idle"
    /\ pc' = [pc EXCEPT ![p] = "add_base"]
    /\ op' = [op EXCEPT ![p] = "add"]
    /\ UNCHANGED <<db, req, txn, gid, result, loaded, hist>>

\* INSERT INTO goats ... of the request's name n and scalar fields d;
\* goat_id = tx.last_insert_rowid()
AddBase(p, n, d) ==
    /\ pc[p] = "add_base"
    /\ WriteLockFree
    /\ LET id == last_insert_rowid(db.goats)
       IN /\ txn' = [txn EXCEPT ![p] =
                 [db EXCEPT !.goats = @ \cup {[id |-> id, name |-> n, data |-> d]}]]
          /\ gid' = [gid EXCEPT ![p] = id]
    /\ req' = [req EXCEPT ![p] = [name |-> n, data |-> d]]
    /\ pc' = [pc EXCEPT ![p] = "add_links"]
    /\ UNCHANGED <<db, op, result, loaded, hist>>

\* what both loops leave in the working copy for vaccinations vs, diseases ds
AddWork(t, g, vs, ds) ==
    LET a == AddVaccineLinks(t, g, vs)
        b == AddDiseaseLinks(a.t, g, ds)
    IN IF a.ok THEN b ELSE a

\* both loops over the request's vaccinations vs and diseases ds, then
\* tx.commit() and 201 Created; a statement the store refuses returns DbError
AddLinks(p, vs, ds) ==
    /\ pc[p] = "add_links"
    /\ LET w == AddWork(txn[p], gid[p], vs, ds)
       IN /\ WithinLinkBounds(w.t)
          /\ IF w.ok
             THEN db' = Commit(db, w.t) /\ Finish(p, "Created")
             ELSE db' = Rollback(db, w.t) /\ Finish(p, "DbError")
    /\ hist' = Record(db')
    /\ UNCHANGED <<op, loaded>>

\* Ok(HttpResponse::Created().body("Goat added")): what the caller of add_goat
\* gets back; goat_id is logged and not sent
add_goat_response(goat_id) ==
    [status |-> "Created", body |-> "Goat added", id |-> NoId]

\* ---------------------------------------------------------------- update_goat
\* UPDATE goats SET ... WHERE name = ?: every row with that name
UpdateGoatsNamed(goats, name, data) ==
    {IF g.name = name THEN [g EXCEPT !.data = data] ELSE g : g \in goats}

\* `affected`: the number of rows the UPDATE or DELETE matched
Affected(goats, name) == Cardinality({g \in goats : g.name = name})

\* SELECT id FROM goats WHERE name = ?1 LIMIT 1: the first row in rowid order
FirstGoatNamed(goats, name) == FirstIdNamed(goats, name)

NoneAffectedNever(affected) == FALSE

\* if affected == 0 { return Err(AppError::InvalidInput(..)) }
NoneAffected(affected) == affected = 0

\* PUT /goats arrives: get_conn, conn.transaction()
StartUpd(p) ==
    /\ pc[p] = "idle"
    /\ pc' = [pc EXCEPT ![p] = "upd_base"]
    /\ op' = [op EXCEPT ![p] = "upd"]
    /\ UNCHANGED <<db, req, txn, gid, result, loaded, hist>>

UpdBaseDirty(p, n, d) ==
    /\ pc[p] = "upd_base"
    /\ WriteLockFree
    /\ LET t1 == [db EXCEPT !.goats = UpdateGoatsNamed(@, n, d)]
           id == FirstGoatNamed(t1.goats, n)
           t2 == [t1 EXCEPT !.goat_vaccines = DeleteLinks(@, id),
                            !.goat_diseases = DeleteLinks(@, id)]
       IN IF NoneAffected(Affected(db.goats, n)) \/ id = NoId
          THEN db' = db /\ Finish(p, "InvalidInput")
          ELSE /\ db' = t2
               /\ txn' = [txn EXCEPT ![p] = t2]
               /\ gid' = [gid EXCEPT ![p] = id]
               /\ req' = [req EXCEPT ![p] = [name |-> n, data |-> d]]
               /\ pc' = [pc EXCEPT ![p] = "upd_links"]
               /\ UNCHANGED result
    /\ hist' = Record(db')
    /\ UNCHANGED <<op, loaded>>

\* the UPDATE for the request's name n and scalar fields d.  No row matched:
\* the early return, whose dropped transaction rolls back.  Else both DELETEs
\* of the old links and the SELECT of goat_id.
UpdBase(p, n, d) ==
    /\ pc[p] = "upd_base"
    /\ WriteLockFree
    /\ LET t1 == [db EXCEPT !.goats = UpdateGoatsNamed(@, n, d)]
           id == FirstGoatNamed(t1.goats, n)
           t2 == [t1 EXCEPT !.goat_vaccines = DeleteLinks(@, id),
                            !.goat_diseases = DeleteLinks(@, id)]
       IN IF NoneAffected(Affected(db.goats, n))
          THEN db' = Rollback(db, t1) /\ Finish(p, "InvalidInput")
          ELSE IF id = NoId
          THEN \* query_row finds no row: QueryReturnedNoRows, a DbError
               db' = Rollback(db, t2) /\ Finish(p, "DbError")
          ELSE /\ txn' = [txn EXCEPT ![p] = t2]
               /\ gid' = [gid EXCEPT ![p] = id]
               /\ req' = [req EXCEPT ![p] = [name |-> n, data |-> d]]
               /\ pc' = [pc EXCEPT ![p] = "upd_links"]
               /\ UNCHANGED <<db, result>>
    /\ hist' = Record(db')
    /\ UNCHANGED <<op, loaded>>

\* what both loops leave in the working copy for vaccinations vs, diseases ds
UpdWork(t, g, vs, ds) == UpdDiseaseLinks(UpdVaccineLinks(t, g, vs), g, ds)

\* both loops over the request's vaccinations vs and diseases ds, then
\* tx.commit() and 200 Ok
UpdLinks(p, vs, ds) ==
    /\ pc[p] = "upd_links"
    /\ LET w == UpdWork(txn[p], gid[p], vs, ds)
       IN /\ WithinLinkBounds(w)
          /\ db' = Commit(db, w)
    /\ Finish(p, "Ok")
    /\ hist' = Record(db')
    /\ UNCHANGED <<op, loaded>>

\* ---------------------------------------------------------------- delete_goat
DeleteGoatsAndRefs(d, name) ==
    [d EXCEPT !.goats = {g \in @ : g.name # name}, !.vaccines = {}, !.diseases = {}]

\* DELETE FROM goats WHERE name = ?: every row with that name; their link rows
\* go with them only if the store cascades
DeleteGoatsNamed(d, name) ==
    LET gone == {g.id : g \in {r \in d.goats : r.name = name}}
        Kept(links) ==
            IF CascadeDelete
            THEN [row \in {r \in DOMAIN links : r.goat_id \notin gone} |-> links[row]]
            ELSE links
    IN [d EXCEPT !.goats = {g \in @ : g.name # name},
                 !.goat_vaccines = Kept(@),
                 !.goat_diseases = Kept(@)]

\* DELETE /goats with name n: one autocommit statement on a pooled connection.
\* It needs the write lock, and fails busy while a transaction holds it.
DeleteGoat(p, n) ==
    /\ pc[p] = "idle"
    /\ IF ~WriteLockFree
       THEN db' = db /\ Finish(p, "DbError")
       ELSE IF NoneAffected(Affected(db.goats, n))
       THEN db' = db /\ Finish(p, "InvalidInput")
       ELSE db' = DeleteGoatsNamed(db, n) /\ Finish(p, "Ok")
    /\ hist' = Record(db')
    /\ op' = [op EXCEPT ![p] = "del"]
    /\ UNCHANGED loaded

\* ---------------------------------------------------------------- reads
\* GET /goats: SELECT * FROM goats, each row through row_to_goat
GetGoats(p) ==
    /\ pc[p] = "idle"
    /\ op' = [op EXCEPT ![p] = "list"]
    /\ IF query_error(db.goats) # "none"
       THEN /\ loaded' = [loaded EXCEPT ![p] = {}]
            /\ Finish(p, query_error(db.goats))
       ELSE /\ loaded' = [loaded EXCEPT ![p] = {row_to_goat(r) : r \in db.goats}]
            /\ Finish(p, "Ok")
    /\ UNCHANGED <<db, hist>>

\* load_goat_details(conn, goat_id) is called with goat_id = id
StartLoad(p, id) ==
    /\ pc[p] = "idle"
    /\ gid' = [gid EXCEPT ![p] = id]
    /\ pc' = [pc EXCEPT ![p] = "load_base"]
    /\ op' = [op EXCEPT ![p] = "load"]
    /\ UNCHANGED <<db, req, txn, result, loaded, hist>>

\* SELECT * FROM goats WHERE id = ?1 through row_to_goat; no row is
\* QueryReturnedNoRows, which `?` turns into DbError, and so is a row that
\* row_to_goat refuses
LoadBase(p) ==
    /\ pc[p] = "load_base"
    /\ LET rows == {r \in db.goats : r.id = gid[p]}
       IN IF rows = {}
          THEN Finish(p, "DbError") /\ UNCHANGED <<loaded, hist>>
          ELSE IF query_error(rows) # "none"
          THEN Finish(p, query_error(rows)) /\ UNCHANGED <<loaded, hist>>
          ELSE /\ pc' = [pc EXCEPT ![p] = "load_vacc"]
               /\ loaded' = [loaded EXCEPT ![p] = {row_to_goat(r) : r \in rows}]
               /\ hist' = [hist EXCEPT ![p] = {Details(db, gid[p])}]
               /\ UNCHANGED <<result, req, txn, gid>>
    /\ UNCHANGED <<db, op>>

\* goat.vaccinations = self.fetch_vaccines(conn, goat_id)?
LoadVaccines(p) ==
    /\ pc[p] = "load_vacc"
    /\ loaded' = [loaded EXCEPT ![p] =
           {[g EXCEPT !.vaccinations = fetch_vaccines(db, gid[p])] : g \in @}]
    /\ pc' = [pc EXCEPT ![p] = "load_dis"]
    /\ UNCHANGED <<db, op, req, txn, gid, result, hist>>

\* goat.diseases = self.fetch_diseases(conn, goat_id)?; Ok(goat)
LoadDiseases(p) ==
    /\ pc[p] = "load_dis"
    /\ loaded' = [loaded EXCEPT ![p] =
           {[g EXCEPT !.diseases = fetch_diseases(db, gid[p])] : g \in @}]
    /\ Finish(p, "Ok")
    /\ hist' = [hist EXCEPT ![p] = {}]
    /\ UNCHANGED <<db, op>>

\* ---------------------------------------------------------------- the boundary
\* enum AppError
AppErrors == {"DbError", "InvalidInput", "ParseError"}

\* impl ResponseError for AppError: the response actix sends for an Err(e)
error_response(e) ==
    CASE e = "DbError" ->
            [status |-> "InternalServerError", body |-> "Internal database error: "]
      [] e = "InvalidInput" ->
            [status |-> "BadRequest", body |-> "No goat found with name "]
      [] e = "ParseError" ->
            [status |-> "BadRequest", body |-> "Parsing error: "]

\* ---------------------------------------------------------------- the other variant
\* The mutex-guarded variant of the server stores a goat in the same file: its
\* GoatParams::new encodes the gender with its own gender_to_str, lower-cased.
BackendInsert(n) ==
    /\ WriteLockFree
    /\ db' = [db EXCEPT !.goats = @ \cup {[id |-> last_insert_rowid(db.goats),
                                           name |-> n, data |-> BackendData]}]
    /\ hist' = Record(db')
    /\ UNCHANGED <<pc, op, req, txn, gid, result, loaded>>

\* ---------------------------------------------------------------- open
\* DbPool::new of the pool variant.  Pool::new and pool.get() fail with
\* PoolError when the file cannot be opened; pragma_update fails with DbError.
\* PRAGMA journal_mode = WAL answers with the mode the file is left in and is
\* no error when the file keeps its mode; the answer is not looked at.
OpenPool(file, pragma) ==
    /\ handle.state = "unopened"
    /\ handle' =
          CASE file = "unopenable" ->
                  [handle EXCEPT !.state = "failed", !.variant = "pool", !.error = "PoolError"]
            [] pragma = "fails" ->
                  [handle EXCEPT !.state = "failed", !.variant = "pool", !.error = "DbError"]
            [] pragma = "kept" ->
                  [handle EXCEPT !.state = "open", !.variant = "pool"]
            [] OTHER ->
                  [handle EXCEPT !.state = "open", !.variant = "pool", !.journal_mode = "wal"]
    /\ UNCHANGED <<db, pc, op, req, txn, gid, result, loaded, hist, deleted, codec, pool>>
    /\ UNCHANGED <<mutex, thread>>

\* DbPool::new of the mutex-guarded variant: Connection::open(db_path)? and
\* nothing else; the journal mode of the file is left as it is
OpenMutex(file) ==
    /\ handle.state = "unopened"
    /\ handle' =
          IF file = "unopenable"
          THEN [handle EXCEPT !.state = "failed", !.variant = "mutex", !.error = "DbError"]
          ELSE [handle EXCEPT !.state = "open", !.variant = "mutex"]
    /\ UNCHANGED <<db, pc, op, req, txn, gid, result, loaded, hist, deleted, codec, pool>>
    /\ UNCHANGED <<mutex, thread>>

\* get_conn of the pool variant: self.pool.get().map_err(AppError::PoolError)
GetConn(p, got) ==
    /\ handle.state = "open" /\ handle.variant = "pool"
    /\ thread[p].pc = "idle"
    /\ thread' = [thread EXCEPT ![p] =
                    [@ EXCEPT !.pc = "done", !.result = IF got THEN "Ok" ELSE "PoolError"]]
    /\ UNCHANGED <<db, pc, op, req, txn, gid, result, loaded, hist, deleted, codec, pool>>
    /\ UNCHANGED <<handle, mutex>>

\* ---------------------------------------------------------------- the mutex-guarded variant
InMutexVariant == handle.state = "open" /\ handle.variant = "mutex"

\* load_goat_details(goat_id) is called with goat_id = id
MStartLoad(p, id) ==
    /\ InMutexVariant
    /\ thread[p].pc = "idle"
    /\ thread' = [thread EXCEPT ![p] = [NoCall EXCEPT !.pc = "lock", !.goat_id = id]]
    /\ UNCHANGED <<db, pc, op, req, txn, gid, result, loaded, hist, deleted, codec, pool>>
    /\ UNCHANGED <<handle, mutex>>

\* let conn = self.conn.lock().unwrap(): waits while another thread holds the
\* mutex, panics when the mutex is poisoned
MLock(p) ==
    /\ thread[p].pc = "lock"
    /\ IF mutex.poisoned
       THEN /\ thread' = [thread EXCEPT ![p] = [@ EXCEPT !.pc = "panicked"]]
            /\ UNCHANGED mutex
       ELSE /\ mutex.holder = NoThread
            /\ mutex' = [mutex EXCEPT !.holder = p]
            /\ thread' = [thread EXCEPT ![p] = [@ EXCEPT !.pc = "base"]]
    /\ UNCHANGED <<db, pc, op, req, txn, gid, result, loaded, hist, deleted, codec, pool>>
    /\ UNCHANGED handle

\* the base-row query through row_to_goat, whose str_to_gender is the one of
\* this variant; an error returns and drops the guard
MLoadBase(p) ==
    /\ thread[p].pc = "base"
    /\ LET rows == {r \in db.goats : r.id = thread[p].goat_id}
           failed == rows = {} \/ \E r \in rows :
                                     ~str_to_gender("mutex", gender_column(r.data)).ok
       IN IF failed
          THEN /\ thread' = [thread EXCEPT ![p] =
                               [@ EXCEPT !.pc = "done", !.result = "DbError"]]
               /\ mutex' = [mutex EXCEPT !.holder = NoThread]
          ELSE /\ thread' = [thread EXCEPT ![p] =
                               [@ EXCEPT !.pc = "vaccines",
                                         !.goat = {row_to_goat(r) : r \in rows}]]
               /\ UNCHANGED mutex
    /\ UNCHANGED <<db, pc, op, req, txn, gid, result, loaded, hist, deleted, codec, pool>>
    /\ UNCHANGED handle

\* goat.vaccinations = self.fetch_vaccines(goat_id)?: fetch_vaccines begins
\* with self.conn.lock() while load_goat_details still holds its guard.  A
\* std::sync::Mutex locked again by its holder never returns from lock(): the
\* thread deadlocks, or it panics, which drops the guard and poisons the mutex.
MFetchVaccines(p, outcome) ==
    /\ thread[p].pc = "vaccines"
    /\ mutex.holder = p
    /\ IF outcome = "deadlock"
       THEN /\ thread' = [thread EXCEPT ![p] = [@ EXCEPT !.pc = "deadlocked"]]
            /\ UNCHANGED mutex
       ELSE /\ thread' = [thread EXCEPT ![p] = [@ EXCEPT !.pc = "panicked", !.goat = {}]]
            /\ mutex' = [holder |-> NoThread, poisoned |-> TRUE]
    /\ UNCHANGED <<db, pc, op, req, txn, gid, result, loaded, hist, deleted, codec, pool>>
    /\ UNCHANGED handle

\* fetch_vaccines(goat_id) called on its own: lock, query, guard dropped
MFetchAlone(p, id) ==
    /\ InMutexVariant
    /\ thread[p].pc = "idle"
    /\ IF mutex.poisoned
       THEN thread' = [thread EXCEPT ![p] = [@ EXCEPT !.pc = "panicked"]]
       ELSE /\ mutex.holder = NoThread
            /\ thread' = [thread EXCEPT ![p] =
                  [NoCall EXCEPT !.pc = "done", !.goat_id = id, !.result = "Ok",
                                 !.goat = {fetch_vaccines(db, id)}]]
    /\ UNCHANGED <<db, pc, op, req, txn, gid, result, loaded, hist, deleted, codec, pool>>
    /\ UNCHANGED <<handle, mutex>>

\* the caller has its answer
MReturn(p) ==
    /\ thread[p].pc = "done"
    /\ thread' = [thread EXCEPT ![p] = NoCall]
    /\ UNCHANGED <<db, pc, op, req, txn, gid, result, loaded, hist, deleted, codec, pool>>
    /\ UNCHANGED <<handle, mutex>>

\* the store file before a server opens it: no rows, in either journal mode
InitMutex ==
    /\ InitServer
    /\ codec = NoCodec
    /\ handle \in {[state |-> "unopened", variant |-> "mutex", journal_mode |-> m,
                    error |-> "none"] : m \in {"delete", "wal"}}
    /\ mutex = MutexFree
    /\ thread = [p \in Procs |-> NoCall]
    /\ pool = PoolOf(MaxPool)

NextMutex ==
    \/ \E file \in {"opens", "unopenable"}, pragma \in {"set", "kept", "fails"} :
          OpenPool(file, pragma)
    \/ \E file \in {"opens", "unopenable"} : OpenMutex(file)
    \/ \E p \in Procs, got \in BOOLEAN : GetConn(p, got)
    \/ \E n \in GoatNames :
          /\ InMutexVariant /\ last_insert_rowid(db.goats) <= MaxReadId
          /\ BackendInsert(n) /\ UNCHANGED aside
    \/ \E p \in Procs, id \in 1..MaxReadId : MStartLoad(p, id)
    \/ \E p \in Procs : MLock(p)
    \/ \E p \in Procs : MLoadBase(p)
    \/ \E p \in Procs, outcome \in {"deadlock", "panic"} : MFetchVaccines(p, outcome)
    \/ \E p \in Procs, id \in 1..MaxReadId : MFetchAlone(p, id)
    \/ \E p \in Procs : MReturn(p)

\* every thread that can take a step takes one in the end
SpecMutex == InitMutex /\ [][NextMutex]_vars /\ WF_vars(NextMutex)

\* ---------------------------------------------------------------- failure, return
\* the statement or query a request is about to run fails in the store
\* (SQLITE_BUSY after the busy timeout, I/O): `?` returns DbError
Fail(p) ==
    /\ pc[p] \in InFlightPcs \ InTxnPcs
    /\ Finish(p, "DbError")
    /\ loaded' = [loaded EXCEPT ![p] = {}]
    /\ hist' = [hist EXCEPT ![p] = {}]
    /\ UNCHANGED <<db, op>>

\* a statement of the loops fails after they got through the vaccinations vs:
\* `?` returns DbError, the dropped transaction rolls back
Abort(p, vs) ==
    /\ pc[p] \in InTxnPcs
    /\ LET work == IF pc[p] = "add_links"
                   THEN AddWork(txn[p], gid[p], vs, <<>>).t
                   ELSE UpdWork(txn[p], gid[p], vs, <<>>)
       IN db' = Rollback(db, work)
    /\ Finish(p, "DbError")
    /\ hist' = Record(db')
    /\ UNCHANGED <<op, loaded>>

\* the response has been sent; the connection is back in the pool
Return(p) ==
    /\ pc[p] = "done"
    /\ pc' = [pc EXCEPT ![p] = "idle"]
    /\ op' = [op EXCEPT ![p] = "none"]
    /\ result' = [result EXCEPT ![p] = "none"]
    /\ loaded' = [loaded EXCEPT ![p] = {}]
    /\ hist' = [hist EXCEPT ![p] = {}]
    /\ UNCHANGED <<db, req, txn, gid>>

\* ---------------------------------------------------------------- specifications
\* A response is delivered before the other connections go on: Return touches
\* nothing but the locals of its own request, so its order among the steps of
\* the others makes no difference to them.
Turn(p) == \A q \in Procs \ {p} : pc[q] # "done"

\* The history variable deleted is kept by the specification that follows the
\* life of an identifier, and stays empty in the others.
\* one step of a request that writes, on connection p
WriteStep(p) ==
    \/ Turn(p) /\ StartAdd(p) /\ UNCHANGED aside
    \/ \E n \in GoatNames, d \in GoatData :
          Turn(p) /\ last_insert_rowid(db.goats) <= MaxId /\ AddBase(p, n, d)
                  /\ UNCHANGED aside
    \/ \E vs \in VaccLists, ds \in DisLists :
          Turn(p) /\ AddLinks(p, vs, ds) /\ UNCHANGED aside
    \/ Turn(p) /\ StartUpd(p) /\ UNCHANGED aside
    \/ \E n \in GoatNames, d \in GoatData :
          Turn(p) /\ UpdBase(p, n, d) /\ UNCHANGED aside
    \/ \E vs \in VaccLists, ds \in DisLists :
          Turn(p) /\ UpdLinks(p, vs, ds) /\ UNCHANGED aside
    \/ \E n \in GoatNames : Turn(p) /\ DeleteGoat(p, n) /\ UNCHANGED aside
    \/ \E vs \in SeqsUpTo(VaccineRefs, MaxAbort) :
          Turn(p) /\ Abort(p, vs) /\ UNCHANGED aside
    \/ Turn(p) /\ Fail(p) /\ UNCHANGED aside
    \/ Return(p) /\ UNCHANGED aside

\* the requests that write: POST, PUT and DELETE /goats on every connection
Next == \E p \in Procs : WriteStep(p)

Spec == Init /\ [][Next]_vars

\* Writers, with one connection that reads.  A query of the reader sees the
\* committed store only, and of a writer's steps only its commit touches that,
\* so the reader's queries are taken between the writers' requests: every
\* sequence of committed stores the three queries of a load can see is still
\* there.
Readers == {NumProcs}
Quiet == \A w \in Procs \ Readers : pc[w] = "idle"
WithinDuring == \A q \in Readers : Cardinality(hist'[q]) <= MaxDuring

ReadStep(p) ==
    \/ Quiet /\ GetGoats(p) /\ UNCHANGED aside
    \/ \E id \in 1..MaxReadId : Quiet /\ StartLoad(p, id) /\ UNCHANGED aside
    \/ Quiet /\ LoadBase(p) /\ UNCHANGED aside
    \/ Quiet /\ LoadVaccines(p) /\ UNCHANGED aside
    \/ Quiet /\ LoadDiseases(p) /\ UNCHANGED aside
    \/ Quiet /\ Fail(p) /\ UNCHANGED aside
    \/ Return(p) /\ UNCHANGED aside

\* the same steps of a writer, within the bounds of the reading specification
WriteStepRead(p) ==
    \/ Turn(p) /\ StartAdd(p) /\ UNCHANGED aside
    \/ \E n \in GoatNames, d \in GoatData :
          Turn(p) /\ last_insert_rowid(db.goats) <= MaxReadId /\ AddBase(p, n, d)
                  /\ UNCHANGED aside
    \/ \E vs \in VaccLists, ds \in DisLists :
          Turn(p) /\ AddLinks(p, vs, ds) /\ WithinDuring /\ UNCHANGED aside
    \/ Turn(p) /\ StartUpd(p) /\ UNCHANGED aside
    \/ \E n \in GoatNames, d \in GoatData :
          Turn(p) /\ UpdBase(p, n, d) /\ WithinDuring /\ UNCHANGED aside
    \/ \E vs \in VaccLists, ds \in DisLists :
          Turn(p) /\ UpdLinks(p, vs, ds) /\ WithinDuring /\ UNCHANGED aside
    \/ \E n \in GoatNames :
          Turn(p) /\ DeleteGoat(p, n) /\ WithinDuring /\ UNCHANGED aside
    \/ \E vs \in SeqsUpTo(VaccineRefs, MaxAbort) :
          Turn(p) /\ Abort(p, vs) /\ UNCHANGED aside
    \/ Turn(p) /\ Fail(p) /\ UNCHANGED aside
    \/ Return(p) /\ UNCHANGED aside

NextRead ==
    \/ \E p \in Procs \ Readers : WriteStepRead(p)
    \/ \E p \in Readers : ReadStep(p)
    \/ \E n \in GoatNames :
          /\ Quiet /\ last_insert_rowid(db.goats) <= MaxReadId
          /\ BackendInsert(n) /\ WithinDuring /\ UNCHANGED aside

SpecRead == Init /\ [][NextRead]_vars

\* Writers and the reader with no order imposed between them: the queries of
\* a read are taken at any point of a writer's request, also between the
\* statements of its open transaction.
ReadStepIso(p) ==
    \/ GetGoats(p) /\ UNCHANGED aside
    \/ \E id \in 1..MaxReadId : StartLoad(p, id) /\ UNCHANGED aside
    \/ LoadBase(p) /\ UNCHANGED aside
    \/ LoadVaccines(p) /\ UNCHANGED aside
    \/ LoadDiseases(p) /\ UNCHANGED aside
    \/ Fail(p) /\ UNCHANGED aside
    \/ Return(p) /\ UNCHANGED aside

NextIso ==
    \/ \E p \in Procs \ Readers : WriteStepRead(p)
    \/ \E p \in Readers : ReadStepIso(p)

SpecIso == Init /\ [][NextIso]_vars

\* The life of a goat identifier: the requests of one connection, one after
\* the other, with the ids that left the goats table remembered in deleted.
NoteDeleted == deleted' = deleted \cup (Ids(db.goats) \ Ids(db'.goats))

WriteStepLife(p) ==
    \/ StartAdd(p) /\ NoteDeleted /\ UNCHANGED apart
    \/ \E n \in GoatNames, d \in GoatData :
          last_insert_rowid(db.goats) <= MaxId /\ AddBase(p, n, d) /\ NoteDeleted /\ UNCHANGED apart
    \/ \E vs \in VaccLists, ds \in DisLists : AddLinks(p, vs, ds) /\ NoteDeleted /\ UNCHANGED apart
    \/ StartUpd(p) /\ NoteDeleted /\ UNCHANGED apart
    \/ \E n \in GoatNames, d \in GoatData : UpdBase(p, n, d) /\ NoteDeleted /\ UNCHANGED apart
    \/ \E vs \in VaccLists, ds \in DisLists : UpdLinks(p, vs, ds) /\ NoteDeleted /\ UNCHANGED apart
    \/ \E n \in GoatNames : DeleteGoat(p, n) /\ NoteDeleted /\ UNCHANGED apart
    \/ \E vs \in SeqsUpTo(VaccineRefs, MaxAbort) : Abort(p, vs) /\ NoteDeleted /\ UNCHANGED apart
    \/ Fail(p) /\ NoteDeleted /\ UNCHANGED apart
    \/ Return(p) /\ NoteDeleted /\ UNCHANGED apart

NextLife == \E p \in Procs \ Readers : WriteStepLife(p)

SpecLife == Init /\ [][NextLife]_vars

\* ---------------------------------------------------------------- the pool at work
\* a request has arrived and its handler calls get_conn: it is inside
\* self.pool.get() until a connection is idle or the wait times out
Arrive(p) ==
    /\ pc[p] = "idle"
    /\ p \notin pool.waiting
    /\ pool' = [pool EXCEPT !.waiting = @ \cup {p}]
    /\ UNCHANGED <<db, pc, op, req, txn, gid, result, loaded, hist>>

\* pool.get() hands the request p an idle connection
Take(pl, p) == [pl EXCEPT !.idle = @ - 1, !.waiting = @ \ {p}]

ReleaseLeaks(pl) == pl

\* the handler returns: its PooledConnection is dropped and is idle again
Release(pl) == [pl EXCEPT !.idle = @ + 1]

\* no connection came idle within the pool's connection_timeout: pool.get()
\* returns its error, which get_conn maps to PoolError and `?` returns
GetTimeout(p) ==
    /\ pc[p] = "idle"
    /\ p \in pool.waiting
    /\ pool.idle = 0
    /\ pool' = [pool EXCEPT !.waiting = @ \ {p}]
    /\ Finish(p, "PoolError")
    /\ UNCHANGED <<db, op, loaded, hist>>

\* what a step of p's handler does to the pool: its first step is get_conn,
\* which needs an idle connection; the step on which it returns drops conn
Pooled(p) ==
    /\ pc[p] = "idle" => (p \in pool.waiting /\ pool.idle > 0)
    /\ pool' = LET got == IF pc[p] = "idle" THEN Take(pool, p) ELSE pool
               IN IF pc[p] # "done" /\ pc'[p] = "done" THEN Release(got) ELSE got

\* the references a request lists while the pool is followed
PoolLists == SeqsUpTo(VaccineRefs, MaxAbort)

\* one step of the handler of request p
PoolStep(p) ==
    \/ StartAdd(p) /\ Pooled(p) /\ UNCHANGED beside
    \/ \E n \in GoatNames, d \in GoatData :
          last_insert_rowid(db.goats) <= MaxReadId /\ AddBase(p, n, d) /\ Pooled(p)
              /\ UNCHANGED beside
    \/ \E vs \in PoolLists : AddLinks(p, vs, <<>>) /\ Pooled(p) /\ UNCHANGED beside
    \/ StartUpd(p) /\ Pooled(p) /\ UNCHANGED beside
    \/ \E n \in GoatNames, d \in GoatData :
          UpdBase(p, n, d) /\ Pooled(p) /\ UNCHANGED beside
    \/ \E vs \in PoolLists : UpdLinks(p, vs, <<>>) /\ Pooled(p) /\ UNCHANGED beside
    \/ \E n \in GoatNames : DeleteGoat(p, n) /\ Pooled(p) /\ UNCHANGED beside
    \/ GetGoats(p) /\ Pooled(p) /\ UNCHANGED beside
    \/ \E vs \in PoolLists : Abort(p, vs) /\ Pooled(p) /\ UNCHANGED beside
    \/ Fail(p) /\ Pooled(p) /\ UNCHANGED beside
    \/ GetTimeout(p) /\ UNCHANGED beside
    \/ Return(p) /\ Pooled(p) /\ UNCHANGED beside

NextPool ==
    \/ \E p \in Procs : Arrive(p) /\ UNCHANGED beside
    \/ \E p \in Procs : PoolStep(p)

\* the server is up with a pool of one connection or more
InitPool ==
    /\ InitServer
    /\ codec = NoCodec
    /\ handle = [state |-> "open", variant |-> "pool", journal_mode |-> "wal", error |-> "none"]
    /\ mutex = MutexFree
    /\ thread = [p \in Procs |-> NoCall]
    /\ pool \in {PoolOf(size) : size \in 1..MaxPool}

\* Every handler runs on a worker thread that the scheduler lets run: a
\* handler that can take a step takes one in the end.  Its waits are bounded:
\* pool.get() by the connection_timeout, the write lock by the busy timeout.
SpecPool == InitPool /\ [][NextPool]_vars /\ \A p \in Procs : WF_vars(PoolStep(p))

\* ---------------------------------------------------------------- the codec at work
\* The texts the codec is given: every upper/lower-case spelling of the two
\* gender strings, the ten breed labels as they are, lower-cased and
\* upper-cased, and texts that are neither.
RECURSIVE Spellings(_)
Spellings(s) ==
    IF s = <<>>
    THEN {<<>>}
    ELSE {<<c>> \o t : c \in {Head(s), Head(to_uppercase(s))}, t \in Spellings(Tail(s))}

Texts ==
    Spellings(<<"m", "a", "l", "e">>) \cup Spellings(<<"f", "e", "m", "a", "l", "e">>)
    \cup {BreedLabels[k][2] : k \in DOMAIN BreedLabels}
    \cup {to_lowercase(BreedLabels[k][2]) : k \in DOMAIN BreedLabels}
    \cup {to_uppercase(BreedLabels[k][2]) : k \in DOMAIN BreedLabels}
    \cup {<<>>, <<"x">>, <<"M", "a", "l", "e", "s">>, <<"O", "t", "h", "e", "r">>,
          <<"F", "e", "m", "a", "l", "e", " ">>}

InitCodec ==
    /\ InitServer
    /\ handle = [state |-> "open", variant |-> "pool", journal_mode |-> "wal", error |-> "none"]
    /\ mutex = MutexFree
    /\ thread = [p \in Procs |-> NoCall]
    /\ pool = PoolOf(MaxPool)
    /\ codec \in {[NoCodec EXCEPT !.variant = v, !.text = t] : v \in Variants, t \in Texts}

Apply(name, arg, out) ==
    /\ codec.op = "none"
    /\ codec' = [codec EXCEPT !.op = name, !.arg = arg, !.out = out]
    /\ UNCHANGED <<db, pc, op, req, txn, gid, result, loaded, hist, deleted>>
    /\ UNCHANGED <<handle, mutex, thread, pool>>

\* str_to_gender(text)
StrToGender == Apply("str_to_gender", "none", str_to_gender(codec.variant, codec.text))

\* str_to_breed(text)
StrToBreed == Apply("str_to_breed", "none", str_to_breed(codec.variant, codec.text))

\* str_to_gender(gender_to_str(g))
GenderRound(g) ==
    Apply("gender_round", g, str_to_gender(codec.variant, gender_to_str(codec.variant, g)))

\* str_to_breed(breed_to_str(b)) for a named breed b
BreedRound(b) ==
    Apply("breed_round", b, str_to_breed(codec.variant, breed_to_str(codec.variant, b)))

\* breed_to_str(str_to_breed(text))
BreedThere ==
    Apply("breed_there", "none",
          Ok(breed_to_str(codec.variant, str_to_breed(codec.variant, codec.text).value)))

\* str_to_breed(breed_to_str(str_to_breed(text)))
BreedBack ==
    Apply("breed_back", "none",
          str_to_breed(codec.variant,
                       breed_to_str(codec.variant,
                                    str_to_breed(codec.variant, codec.text).value)))

NextCodec ==
    \/ StrToGender
    \/ StrToBreed
    \/ \E g \in Genders : GenderRound(g)
    \/ \E b \in NamedBreeds : BreedRound(b)
    \/ BreedThere
    \/ BreedBack

SpecCodec == InitCodec /\ [][NextCodec]_vars

\* ---------------------------------------------------------------- a goat written and read back
\* what a column of a stored row holds: a text, or NULL
Text(s) == [kind |-> "text", text |-> s]
Null == [kind |-> "null", text |-> <<>>]

\* Option<String>
Some(s) == [some |-> TRUE, value |-> s]
None == [some |-> FALSE, value |-> <<>>]

\* the goats a request can carry: a named breed, Other with a text that is no
\* label, Other with the text of a label; a last-bred date that is absent,
\* empty or a date
RowBreeds ==
    {Named("Beetal"), Other(<<"x">>), Other(<<"B", "e", "e", "t", "a", "l">>)}
LastBreds == {None, Some(<<>>), Some(<<"2", "0", "2", "4">>)}
RowGoats ==
    [breed : RowBreeds, name : {"x"}, gender : Genders, offspring : {0}, diet : {"hay"},
     last_bred : LastBreds, health_status : {"healthy"},
     vaccinations : SUBSET VaccineNames]

\* Option::unwrap_or_default of an Option<String>: the empty String for None
unwrap_or_default(opt) == IF opt.some THEN opt.value ELSE <<>>

\* GoatParams::new of the mutex-guarded variant
GoatParams_new(goat) ==
    [breed |-> breed_to_str("mutex", goat.breed),
     name |-> goat.name,
     gender |-> gender_to_str("mutex", goat.gender),
     diet |-> goat.diet,
     last_bred |-> unwrap_or_default(goat.last_bred),
     health_status |-> goat.health_status,
     offspring |-> goat.offspring]

\* GoatParams::as_params, bound to the INSERT: every String is stored as a text
as_params(params) ==
    [breed |-> Text(params.breed), name |-> Text(params.name),
     gender |-> Text(params.gender), offspring |-> params.offspring,
     diet |-> Text(params.diet), last_bred |-> Text(params.last_bred),
     health_status |-> Text(params.health_status)]

\* the params! list of add_goat in the pool variant: the enums through the
\* codec, &new_goat.last_bred bound as it is, NULL for None
add_goat_params(goat) ==
    [breed |-> Text(breed_to_str("pool", goat.breed)), name |-> Text(goat.name),
     gender |-> Text(gender_to_str("pool", goat.gender)), offspring |-> goat.offspring,
     diet |-> Text(goat.diet),
     last_bred |-> IF goat.last_bred.some THEN Text(goat.last_bred.value) ELSE Null,
     health_status |-> Text(goat.health_status)]

DbErr == [ok |-> FALSE, error |-> "DbError"]

\* row.get::<_, String>(column) is an Err: the column holds no text, or the
\* read fails for a cause outside the row (the columns in unread)
Unreadable(row, unread, column) == column \in unread \/ row[column].kind # "text"

\* row_to_goat column by column: row.get(..)? returns the error of a column
\* that cannot be read, str_to_gender(..)? the ParseError; last_bred is
\* row.get(9).ok(), None when the read is an Err
row_to_goat_columns(variant, row, unread) ==
    IF Unreadable(row, unread, "breed") \/ Unreadable(row, unread, "gender")
    THEN DbErr
    ELSE IF ~str_to_gender(variant, row.gender.text).ok
    THEN str_to_gender(variant, row.gender.text)
    ELSE IF \E column \in {"name", "diet", "health_status"} : Unreadable(row, unread, column)
    THEN DbErr
    ELSE Ok([breed |-> str_to_breed(variant, row.breed.text).value,
             name |-> row.name.text,
             gender |-> str_to_gender(variant, row.gender.text).value,
             offspring |-> row.offspring,
             diet |-> row.diet.text,
             last_bred |-> IF Unreadable(row, unread, "last_bred")
                           THEN None
                           ELSE Some(row.last_bred.text),
             health_status |-> row.health_status.text,
             vaccinations |-> {}])

\* query_map(..)?.filter_map(Result::ok).collect() of fetch_vaccines: of the
\* joined rows, those whose read is an Err (failing) are left out
filter_map_ok(rows, failing) == rows \ failing

\* the stored row through row_to_goat inside query_row, whose closure wraps
\* every error and whose `?` makes DbError of it, then the joined vaccine rows
\* through fetch_vaccines: what load_goat_details puts together
load_columns(variant, stored, unread, failing) ==
    LET base == row_to_goat_columns(variant, stored.row, unread)
    IN IF ~base.ok
       THEN DbErr
       ELSE Ok([base.value EXCEPT !.vaccinations = filter_map_ok(stored.vaccines, failing)])

\* the columns whose read can fail for a cause outside the row
FaultColumns == {"last_bred", "health_status"}

NoRow == [row |-> "none", vaccines |-> {}]

\* a goat to be written, by the variant of the server that writes and reads it
InitRow ==
    /\ InitServer
    /\ handle = [state |-> "open", variant |-> "pool", journal_mode |-> "wal", error |-> "none"]
    /\ mutex = MutexFree
    /\ thread = [p \in Procs |-> NoCall]
    /\ pool = PoolOf(MaxPool)
    /\ codec \in {[NoCodec EXCEPT !.variant = v,
                                  !.arg = [goat |-> g, stored |-> NoRow,
                                           unread |-> {}, failing |-> {}]]
                    : v \in Variants, g \in RowGoats}

\* the INSERT of the goat with the parameters of the variant, and one link row
\* for each of its vaccinations
WriteGoat ==
    /\ codec.op = "none"
    /\ codec' = [codec EXCEPT
          !.op = "written",
          !.arg = [@ EXCEPT !.stored =
                      [row |-> IF codec.variant = "mutex"
                               THEN as_params(GoatParams_new(codec.arg.goat))
                               ELSE add_goat_params(codec.arg.goat),
                       vaccines |-> codec.arg.goat.vaccinations]]]
    /\ UNCHANGED <<db, pc, op, req, txn, gid, result, loaded, hist, deleted>>
    /\ UNCHANGED <<handle, mutex, thread, pool>>

\* the goat written is read back: its row through row_to_goat, its joined rows
\* through fetch_vaccines, while the reads of the columns in unread and of the
\* joined rows in failing are Errs
LoadGoat(unread, failing) ==
    /\ codec.op = "written"
    /\ failing \subseteq codec.arg.stored.vaccines
    /\ codec' = [codec EXCEPT
          !.op = "load",
          !.arg = [@ EXCEPT !.unread = unread, !.failing = failing],
          !.out = load_columns(codec.variant, codec.arg.stored, unread, failing)]
    /\ UNCHANGED <<db, pc, op, req, txn, gid, result, loaded, hist, deleted>>
    /\ UNCHANGED <<handle, mutex, thread, pool>>

NextRow ==
    \/ WriteGoat
    \/ \E unread \in SUBSET FaultColumns, failing \in SUBSET VaccineNames :
          LoadGoat(unread, failing)

SpecRow == InitRow /\ [][NextRow]_vars

\* ---------------------------------------------------------------- properties
\* p's request took the step from pc value `from` to "done"
Ended(p, from) == pc[p] \in from /\ pc'[p] = "done"

RowsNamed(table, name) == {r \in table : r.name = name}

\* the names `refs` gives without an id
ByName(refs) == {refs[i].name : i \in {j \in 1..Len(refs) : refs[j].id = NoId}}

\* the id a reference stands for in a table that holds its name
ResolvedId(table, ref) ==
    IF ref.id # NoId THEN ref.id ELSE FirstIdNamed(table, ref.name)

\* C1: add_goat is all-or-nothing.  Whatever step of an insert fails (the base
\* INSERT, a resolution or a link INSERT of the loops, COMMIT), the step that
\* ends the request without 201 Created leaves the committed store as it was,
\* and no earlier step of the request had changed it: nothing of the insert
\* is there for a later operation to see.
C1_AddAllOrNothing ==
    [][\A p \in Procs :
          /\ (pc[p] = "add_base" /\ pc'[p] = "add_links") => db' = db
          /\ (Ended(p, {"add_base", "add_links"}) /\ result'[p] # "Created") => db' = db
      ]_vars

\* an insert has failed on a store that holds goats, references and links
C1_Witness ==
    \E p \in Procs :
        /\ pc[p] = "done" /\ op[p] = "add" /\ result[p] = "DbError"
        /\ db.goats # {} /\ db.vaccines # {} /\ db.goat_vaccines # EmptyBag

\* C2: concurrent inserts that name the same new vaccine leave one row of that
\* name.  Whenever an insert commits, however the other requests are
\* interleaved with it: every vaccine row committed before is still there,
\* every name of its request has exactly one row, the new goat's links point
\* to that row, and the links committed before are all kept.
C2_ConcurrentAddOneRow ==
    [][\A p \in Procs : Ended(p, {"add_links"}) =>
       \A vs \in VaccLists, ds \in DisLists :
          (AddLinks(p, vs, ds) /\ result'[p] = "Created") =>
              /\ db.vaccines \subseteq db'.vaccines
              /\ \A row \in DOMAIN db.goat_vaccines : row \in DOMAIN db'.goat_vaccines
              /\ \A n \in ByName(vs) :
                    /\ Cardinality(RowsNamed(db'.vaccines, n)) = 1
                    /\ \A r \in RowsNamed(db'.vaccines, n) :
                          VLink(gid[p], r.id) \in DOMAIN db'.goat_vaccines
      ]_vars

\* an insert holds the write lock with its base row written while another
\* insert, begun before any vaccine row was committed, waits for the lock
C2_Witness ==
    \E p, q \in Procs :
        /\ p # q
        /\ pc[p] = "add_links" /\ pc[q] = "add_base"
        /\ db.vaccines = {}

C4_UpdateLinksExact ==
    [][\A p \in Procs : Ended(p, {"upd_links"}) =>
       \A vs \in VaccLists, ds \in DisLists :
          UpdLinks(p, vs, ds) =>
              \A g \in RowsNamed(db'.goats, req[p].name) :
                  /\ DOMAIN LinksOf(db'.goat_vaccines, g.id) =
                        {VLink(g.id, ResolvedId(db'.vaccines, vs[i])) : i \in 1..Len(vs)}
                  /\ DOMAIN LinksOf(db'.goat_diseases, g.id) =
                        {DLink(g.id, ResolvedId(db'.diseases, ds[i])) : i \in 1..Len(ds)}
      ]_vars

\* C5: after a successful delete the goat's base row and all its link rows are
\* deleted, the reference rows all remain, and the links of the other goats are
\* as they were.
C5_DeleteRemovesLinks ==
    [][\A p \in Procs, n \in GoatNames :
          (DeleteGoat(p, n) /\ result'[p] = "Ok") =>
              /\ RowsNamed(db'.goats, n) = {}
              /\ \A g \in RowsNamed(db.goats, n) :
                    /\ LinksOf(db'.goat_vaccines, g.id) = EmptyBag
                    /\ LinksOf(db'.goat_diseases, g.id) = EmptyBag
              /\ db'.vaccines = db.vaccines /\ db'.diseases = db.diseases
              /\ \A g \in db'.goats :
                    /\ LinksOf(db'.goat_vaccines, g.id) = LinksOf(db.goat_vaccines, g.id)
                    /\ LinksOf(db'.goat_diseases, g.id) = LinksOf(db.goat_diseases, g.id)
      ]_vars

\* the names `refs` gives without an id that `table` has no row of
NewNames(table, refs) == ByName(refs) \ {r.name : r \in table}

\* C6: resolving a reference that carries no id creates a row only when the
\* table has no row of that name.  When an insert commits, the vaccine rows it
\* created are one for each name of its request that had no row, it added one
\* link row for each vaccination, and a name that had a row is linked by that
\* row's id; the same for its diseases.
C6_ResolveCreatesOnlyAbsent ==
    [][\A p \in Procs : Ended(p, {"add_links"}) =>
       \A vs \in VaccLists, ds \in DisLists :
          (AddLinks(p, vs, ds) /\ result'[p] = "Created") =>
              /\ {r.name : r \in db'.vaccines \ db.vaccines} = NewNames(db.vaccines, vs)
              /\ Cardinality(db'.vaccines \ db.vaccines)
                    = Cardinality(NewNames(db.vaccines, vs))
              /\ BagCardinality(db'.goat_vaccines)
                    = BagCardinality(db.goat_vaccines) + Len(vs)
              /\ \A n \in ByName(vs) : \A r \in RowsNamed(db.vaccines, n) :
                    VLink(gid[p], r.id) \in DOMAIN db'.goat_vaccines
              /\ {r.name : r \in db'.diseases \ db.diseases} = NewNames(db.diseases, ds)
              /\ Cardinality(db'.diseases \ db.diseases)
                    = Cardinality(NewNames(db.diseases, ds))
              /\ BagCardinality(db'.goat_diseases)
                    = BagCardinality(db.goat_diseases) + Len(ds)
              /\ \A n \in ByName(ds) : \A r \in RowsNamed(db.diseases, n) :
                    DLink(gid[p], r.id) \in DOMAIN db'.goat_diseases
      ]_vars

\* one goat is linked to two vaccine rows and another goat to one of the two:
\* three link rows, two vaccine rows
C6_Witness ==
    /\ Cardinality(db.vaccines) = 2
    /\ BagCardinality(db.goat_vaccines) = 3
    /\ \E g, h \in db.goats :
          /\ g # h
          /\ \A v \in db.vaccines : VLink(g.id, v.id) \in DOMAIN db.goat_vaccines
          /\ \E v \in db.vaccines : VLink(h.id, v.id) \in DOMAIN db.goat_vaccines

\* C7: in every reachable state no two rows of vaccines share a name and no
\* two rows of diseases share a name, in the committed store and in the
\* working copy of every open transaction.
C7_RefNamesUnique ==
    \A t \in {db} \cup {txn[p] : p \in Procs} :
        /\ \A a, b \in t.vaccines : a.name = b.name => a = b
        /\ \A a, b \in t.diseases : a.name = b.name => a = b

\* a transaction has already written while the store holds both vaccine names
\* and the disease name, each named more than once: two goats are linked to one
\* vaccine row, and the disease row is there with no link left to it
C7_Witness ==
    /\ Cardinality(db.vaccines) = 2
    /\ db.diseases # {}
    /\ db.goat_diseases = EmptyBag
    /\ \E v \in db.vaccines : \A g \in 1..MaxId : VLink(g, v.id) \in DOMAIN db.goat_vaccines
    /\ \E p \in Procs : pc[p] \in InTxnPcs

C9_LoadOneCommittedState ==
    [][\A p \in Procs :
          (LoadDiseases(p) /\ result'[p] = "Ok") => loaded'[p] \in hist[p]
      ]_vars

\* the link rows of goat g in store d, by reference id
LinkedVaccines(d, g) ==
    [v \in {r.vaccine_id : r \in DOMAIN LinksOf(d.goat_vaccines, g)}
        |-> d.goat_vaccines[VLink(g, v)]]
LinkedDiseases(d, g) ==
    [v \in {r.disease_id : r \in DOMAIN LinksOf(d.goat_diseases, g)}
        |-> d.goat_diseases[DLink(g, v)]]

\* the references of a relation a goat carries, by id
Carried(rel) ==
    [v \in {r.id : r \in DOMAIN rel} |-> rel[CHOOSE r \in DOMAIN rel : r.id = v]]

\* C10: every goat a read returns (the listing of get_goats, the goat of
\* load_goat_details) carries vaccinations and diseases equal to the link rows
\* of its id in the store the read returns from: none missing, none twice.
C10_ReadsCarryLinks ==
    [][\A p \in Procs :
          ((GetGoats(p) \/ LoadDiseases(p)) /\ result'[p] = "Ok") =>
              \A g \in loaded'[p] :
                  /\ Carried(g.vaccinations) = LinkedVaccines(db, g.id)
                  /\ Carried(g.diseases) = LinkedDiseases(db, g.id)
      ]_vars

C13_UpdateById ==
    [][\A p \in Procs, n \in GoatNames, d \in GoatData : \A i \in Ids(db.goats) :
          UpdBase(p, n, d) =>
              /\ pc'[p] = "upd_links"
              /\ [id |-> i, name |-> n, data |-> d] \in txn'[p].goats
      ]_vars

\* C14 as stated: a successful insert adds exactly one goat row with a newly
\* assigned identifier, one link row for each vaccination and disease of the
\* request, and returns the generated identifier to the caller.
C14_AddReturnsId ==
    [][\A p \in Procs : Ended(p, {"add_links"}) =>
       \A vs \in VaccLists, ds \in DisLists :
          (AddLinks(p, vs, ds) /\ result'[p] = "Created") =>
              /\ db'.goats = db.goats \cup {[id |-> gid[p], name |-> req[p].name,
                                             data |-> req[p].data]}
              /\ gid[p] \notin Ids(db.goats)
              /\ BagCardinality(db'.goat_vaccines)
                    = BagCardinality(db.goat_vaccines) + Len(vs)
              /\ BagCardinality(db'.goat_diseases)
                    = BagCardinality(db.goat_diseases) + Len(ds)
              /\ add_goat_response(gid[p]).id = gid[p]
      ]_vars

\* C14, amended: a successful insert adds exactly one goat row, with an
\* identifier no row of goats had, holding the name and fields of the request;
\* it adds one link row for each vaccination and each disease of the request,
\* from the new goat to the resolved reference; and it answers 201 Created
\* with the body "Goat added", which carries no identifier.
C14_AddOneRowNoId ==
    [][\A p \in Procs : Ended(p, {"add_links"}) =>
       \A vs \in VaccLists, ds \in DisLists :
          (AddLinks(p, vs, ds) /\ result'[p] = "Created") =>
              /\ db'.goats = db.goats \cup {[id |-> gid[p], name |-> req[p].name,
                                             data |-> req[p].data]}
              /\ gid[p] \notin Ids(db.goats)
              /\ BagCardinality(db'.goat_vaccines)
                    = BagCardinality(db.goat_vaccines) + Len(vs)
              /\ BagCardinality(db'.goat_diseases)
                    = BagCardinality(db.goat_diseases) + Len(ds)
              /\ \A i \in 1..Len(vs) :
                    VLink(gid[p], ResolvedId(db'.vaccines, vs[i])) \in DOMAIN db'.goat_vaccines
              /\ \A i \in 1..Len(ds) :
                    DLink(gid[p], ResolvedId(db'.diseases, ds[i])) \in DOMAIN db'.goat_diseases
              /\ add_goat_response(gid[p]) =
                    [status |-> result'[p], body |-> "Goat added", id |-> NoId]
      ]_vars

\* an insert has returned 201 Created for a second goat, whose vaccinations and
\* disease are linked
C14_Witness ==
    \E p \in Procs :
        /\ pc[p] = "done" /\ op[p] = "add" /\ result[p] = "Created"
        /\ Cardinality(db.goats) = 2
        /\ \E v \in Ids(db.vaccines) : VLink(MaxId, v) \in DOMAIN db.goat_vaccines
        /\ \E v \in Ids(db.diseases) : DLink(MaxId, v) \in DOMAIN db.goat_diseases

\* C15: no single insert or update leaves two identical rows in goat_vaccines
\* or goat_diseases: of every pair, the loops of one request add at most one
\* row to what the transaction held before them.
C15_NoDuplicatePair ==
    [][\A p \in Procs :
          (Ended(p, InTxnPcs) /\ result'[p] \in {"Created", "Ok"}) =>
              /\ \A row \in DOMAIN db'.goat_vaccines :
                    CopiesIn(row, db'.goat_vaccines) - CopiesIn(row, txn[p].goat_vaccines) <= 1
              /\ \A row \in DOMAIN db'.goat_diseases :
                    CopiesIn(row, db'.goat_diseases) - CopiesIn(row, txn[p].goat_diseases) <= 1
      ]_vars

\* C16: committed reference rows are never removed: every row of vaccines and
\* of diseases is there, with its id and name, after every step.
C16_RefRowsStay ==
    [][db.vaccines \subseteq db'.vaccines /\ db.diseases \subseteq db'.diseases]_vars

\* a delete has removed the last goat, and the vaccine and disease rows it
\* referenced are still there
C16_Witness ==
    \E p \in Procs :
        /\ pc[p] = "done" /\ op[p] = "del" /\ result[p] = "Ok"
        /\ db.goats = {} /\ db.vaccines # {} /\ db.diseases # {}

\* C17: a successful delete removes exactly the one goat it was addressed to:
\* one base row is deleted, every other base row is as it was, goats of the same
\* name included, and so are the link rows of every other goat.
C17_DeleteExactlyOne ==
    [][\A p \in Procs, n \in GoatNames :
          (DeleteGoat(p, n) /\ result'[p] = "Ok") =>
              /\ db'.goats \subseteq db.goats
              /\ Cardinality(db.goats \ db'.goats) = 1
              /\ \A g \in db'.goats :
                    /\ LinksOf(db'.goat_vaccines, g.id) = LinksOf(db.goat_vaccines, g.id)
                    /\ LinksOf(db'.goat_diseases, g.id) = LinksOf(db.goat_diseases, g.id)
      ]_vars

\* C12: the life of a goat identifier is absent, active, absent, and the
\* delete is final: an identifier that was in goats and was deleted is never
\* in goats again.
C12_DeletedIdNeverBack == Ids(db.goats) \cap deleted = {}

\* C18: a load of an identifier that is not in goats fails with
\* NotFoundError, an outcome of its own and not the DbError of a failing store.
C18_LoadMissingNotFound ==
    [][\A p \in Procs :
          (LoadBase(p) /\ gid[p] \notin Ids(db.goats)) =>
              result'[p] = "NotFound" /\ loaded'[p] = {}
      ]_vars

\* C19: a load of a goat whose stored gender text is no Gender value fails
\* with AppError::ParseError, not with DbError, and returns no goat.
C19_LoadBadGenderParseError ==
    [][\A p \in Procs :
          (LoadBase(p) /\ \E r \in db.goats :
                             r.id = gid[p] /\ ~str_to_gender("pool", gender_column(r.data)).ok) =>
              result'[p] = "ParseError" /\ loaded'[p] = {}
      ]_vars

\* C20: at the boundary a store failure and an enum parse failure are answered
\* with a server-side failure response, a not-found and an invalid input with
\* a client-request-error response that carries a message.  error_response
\* maps every AppError that way, and a load, an update and a delete addressed
\* to a goat that is not there are answered as client errors.
C20_BoundaryMapping ==
    [][/\ \A e \in AppErrors :
             /\ error_response(e).status =
                   IF e \in {"DbError", "ParseError"}
                   THEN "InternalServerError" ELSE "BadRequest"
             /\ error_response(e).body # ""
       /\ \A p \in Procs :
             (LoadBase(p) /\ gid[p] \notin Ids(db.goats)) =>
                 error_response(result'[p]).status = "BadRequest"
       /\ \A p \in Procs, n \in GoatNames :
             (DeleteGoat(p, n) /\ WriteLockFree /\ RowsNamed(db.goats, n) = {}) =>
                 error_response(result'[p]).status = "BadRequest"
      ]_vars

\* C21: an update whose request carries no identifier fails with InvalidInput
\* and changes nothing in the store.  The handler is the same for every
\* identifier of the request, so for the request without one (NoId), with any
\* name n and fields d: the UPDATE step ends the request with InvalidInput and
\* the store is as it was.
C21_UpdateWithoutIdRefused ==
    [][\A p \in Procs, n \in GoatNames, d \in GoatData : \A id \in {NoId} :
          UpdBase(p, n, d) =>
              /\ pc'[p] = "done" /\ result'[p] = "InvalidInput"
              /\ db' = db
      ]_vars

\* C29: two concurrent writes on the same goat are linearizable.  Every
\* committed update leaves the store that the whole update (base fields and
\* links of the same request) makes of the store committed just before it,
\* every delete leaves what the whole delete makes of it, and after a delete
\* no link row is left for a goat it removed.
C29_SameGoatLinearizable ==
    [][\A p \in Procs :
          /\ (Ended(p, {"upd_links"}) /\ result'[p] = "Ok") =>
                \A vs \in VaccLists, ds \in DisLists :
                   UpdLinks(p, vs, ds) =>
                      LET t1 == [db EXCEPT
                                   !.goats = UpdateGoatsNamed(@, req[p].name, req[p].data)]
                          id == FirstGoatNamed(t1.goats, req[p].name)
                          t2 == [t1 EXCEPT !.goat_vaccines = DeleteLinks(@, id),
                                           !.goat_diseases = DeleteLinks(@, id)]
                      IN db' = UpdWork(t2, id, vs, ds)
          /\ (Ended(p, {"idle"}) /\ op'[p] = "del" /\ result'[p] = "Ok") =>
                /\ \E n \in GoatNames : db'.goats = {g \in db.goats : g.name # n}
                /\ \A g \in db.goats \ db'.goats :
                      /\ LinksOf(db'.goat_vaccines, g.id) = EmptyBag
                      /\ LinksOf(db'.goat_diseases, g.id) = EmptyBag
      ]_vars

\* C27: the listing returns exactly the goats persisted at the time of the
\* call: when get_goats answers with a list, the list has one entry for every
\* row of the committed goats table, with the id, name and fields of that row,
\* and no other entry (none for a goat that was deleted or rolled back).
C27_ListingExact ==
    [][\A p \in Procs :
          (GetGoats(p) /\ result'[p] = "Ok") =>
              /\ Cardinality(loaded'[p]) = Cardinality(db.goats)
              /\ {[id |-> g.id, name |-> g.name, data |-> g.data] : g \in loaded'[p]}
                    = db.goats
      ]_vars

\* a listing has returned the one goat of a store
C27_Witness ==
    \E p \in Procs :
        /\ pc[p] = "done" /\ op[p] = "list" /\ result[p] = "Ok"
        /\ Cardinality(loaded[p]) = 1 /\ db.vaccines # {}

\* C30: while an update is between deleting the old link rows and its commit,
\* no read on another connection sees the goat without its old links.  The
\* statements of the update before its commit leave the committed store as it
\* was, and the relation queries of a load on another connection, taken while
\* the update of the same goat is open, return the link rows of the committed
\* store, never those of the update's working copy.
C30_OldLinksVisible ==
    [][/\ \A w \in Procs, n \in GoatNames, d \in GoatData :
             (UpdBase(w, n, d) /\ pc'[w] = "upd_links") => db' = db
       /\ \A p \in Procs, w \in Procs :
             (p # w /\ pc[w] = "upd_links" /\ gid[w] = gid[p]) =>
                 /\ LoadVaccines(p) =>
                       \A g \in loaded'[p] : g.vaccinations = fetch_vaccines(db, gid[p])
                 /\ LoadDiseases(p) =>
                       \A g \in loaded'[p] : g.diseases = fetch_diseases(db, gid[p])
      ]_vars

\* a load has read the old vaccinations of a goat whose update, open on another
\* connection, has already deleted them in its transaction
C30_Witness ==
    \E p \in Procs, w \in Procs :
        /\ pc[w] = "upd_links" /\ pc[p] = "load_dis" /\ gid[w] = gid[p]
        /\ LinksOf(txn[w].goat_vaccines, gid[w]) = EmptyBag
        /\ \E g \in loaded[p] : g.vaccinations # EmptyBag

\* C22: the enum codec round-trips in both variants: str_to_gender of
\* gender_to_str(x) is x for both genders, str_to_breed of breed_to_str(x) is x
\* for the ten named breeds; a text t that is no breed label decodes to
\* Other(t), which encodes to t; and decoding the encoding of a decoded text
\* gives the decoded text again.
C22_CodecRoundTrips ==
    /\ codec.op \in {"gender_round", "breed_round"} => codec.out = Ok(codec.arg)
    /\ (codec.op = "breed_there"
            /\ \A k \in DOMAIN BreedLabels : BreedLabels[k][2] # codec.text) =>
          /\ str_to_breed(codec.variant, codec.text) = Ok(Other(codec.text))
          /\ codec.out = Ok(codec.text)
    /\ codec.op = "breed_back" => codec.out = str_to_breed(codec.variant, codec.text)

\* the mutex variant has decoded, encoded and decoded again a text that is the
\* label of a breed in another case
C22_Witness ==
    /\ codec.op = "breed_back" /\ codec.variant = "mutex"
    /\ codec.text = <<"c", "h", "e", "g", "u">>
    /\ codec.out.value = Other(codec.text)

\* C23: str_to_gender succeeds for exactly two texts, the two that
\* gender_to_str of its variant produces, and fails for every other text, the
\* other upper/lower-case spellings of the two included.
C23_GenderExactlyTwo ==
    codec.op = "str_to_gender" =>
        (codec.out.ok <=> codec.text \in {gender_to_str(codec.variant, g) : g \in Genders})

\* C24: the ParseEnumError of a failing str_to_gender(s) carries input = s,
\* character by character, and target_enum = "Gender".
C24_ParseErrorCarriesInput ==
    (codec.op = "str_to_gender" /\ ~codec.out.ok) =>
        /\ codec.out.error = "ParseError"
        /\ codec.out.input = codec.text
        /\ codec.out.target_enum = "Gender"

\* C25: str_to_breed never fails: a text that is one of the ten labels,
\* character by character, gives the named breed, and every other text, a
\* label in another case included, gives Other carrying the text unchanged.
C25_BreedNeverFails ==
    codec.op = "str_to_breed" =>
        /\ codec.out.ok /\ codec.out.error = "none"
        /\ \A k \in DOMAIN BreedLabels :
              BreedLabels[k][2] = codec.text => codec.out.value = Named(BreedLabels[k][1])
        /\ (\A k \in DOMAIN BreedLabels : BreedLabels[k][2] # codec.text) =>
              codec.out.value = Other(codec.text)
        /\ \A k \in DOMAIN BreedLabels :
              (to_lowercase(BreedLabels[k][2]) = to_lowercase(codec.text)
                  /\ BreedLabels[k][2] # codec.text) => codec.out.value.tag = "Other"

\* str_to_breed has been given "BEETAL" and has answered Other("BEETAL")
C25_Witness ==
    /\ codec.op = "str_to_breed"
    /\ codec.text = <<"B", "E", "E", "T", "A", "L">>
    /\ codec.out = Ok(Other(<<"B", "E", "E", "T", "A", "L">>))

\* C26: in the mutex-guarded variant load_goat_details always completes, with
\* a goat or an error: a load that has taken the connection lock for its
\* base-row query returns in the end.
C26_MutexLoadCompletes ==
    \A p \in Procs : (thread[p].pc = "base") ~> (thread[p].pc = "done")

\* C28: DbPool::new returns a handle on which the write-ahead mode has been
\* set, or fails with DbError; it never returns a handle without the mode set.
C28_OpenSetsWal ==
    /\ handle.state = "open" => handle.journal_mode = "wal"
    /\ handle.state = "failed" => handle.error = "DbError"

\* C31: update_goat is all-or-nothing.  Nothing it does before tx.commit()
\* reaches the committed store, and when it ends with anything but 200 Ok
\* (a failing UPDATE, a failure after the old links were deleted, in a
\* reference resolution or in a link insert) the committed store (the goat's
\* base row, its old link rows and both reference tables) is as it was.
C31_UpdateAllOrNothing ==
    [][\A p \in Procs :
          /\ (pc[p] = "upd_base" /\ pc'[p] = "upd_links") => db' = db
          /\ (Ended(p, {"upd_base", "upd_links"}) /\ result'[p] # "Ok") =>
                /\ db'.goats = db.goats
                /\ db'.goat_vaccines = db.goat_vaccines
                /\ db'.goat_diseases = db.goat_diseases
                /\ db'.vaccines = db.vaccines
                /\ db'.diseases = db.diseases
      ]_vars

\* an update has failed with DbError over a store that holds a goat with its
\* links and reference rows
C31_Witness ==
    \E p \in Procs :
        /\ pc[p] = "done" /\ op[p] = "upd" /\ result[p] = "DbError"
        /\ db.goats # {} /\ db.vaccines # {} /\ db.diseases # {}
        /\ db.goat_vaccines # EmptyBag /\ db.goat_diseases # EmptyBag

\* the connections out of the pool are those of the handlers at work
Held == {q \in Procs : pc[q] \in InFlightPcs}

\* C32 (as stated): every change of the store is made inside an explicit
\* transaction, which is the commit of a transaction a handler opened with
\* conn.transaction(); and on every exit of a handler its transaction is
\* closed and its connection is back in the pool.
C32_AllInTransaction ==
    [][/\ db' # db => \E p \in Procs : Ended(p, InTxnPcs)
       /\ \A p \in Procs :
             (pc[p] # "done" /\ pc'[p] = "done") =>
                 /\ txn'[p] = EmptyDb
                 /\ pool'.idle + Cardinality({q \in Procs : pc'[q] \in InFlightPcs})
                       = pool'.size
      ]_vars

\* C32 (amended): the store changes only on the commit of the transaction
\* of a successful insert or replace, or by the single autocommit DELETE of a
\* successful delete; and on every exit of a handler, whatever its outcome,
\* no transaction of it is open, it does not hold the write lock and its
\* connection is back in the pool.
C32_ChangesAndRelease ==
    [][/\ db' # db =>
             \E p \in Procs :
                 \/ Ended(p, InTxnPcs) /\ result'[p] \in {"Created", "Ok"}
                 \/ /\ pc[p] = "idle" /\ pc'[p] = "done"
                    /\ op'[p] = "del" /\ result'[p] = "Ok"
       /\ \A p \in Procs :
             (pc[p] # "done" /\ pc'[p] = "done") =>
                 /\ txn'[p] = EmptyDb
                 /\ pc'[p] \notin InTxnPcs
                 /\ pool'.idle + Cardinality({q \in Procs : pc'[q] \in InFlightPcs})
                       = pool'.size
      ]_vars

\* a replace has left by its early not-found return over a store with goats:
\* no transaction of it is open and every connection of the pool is idle
C32_Witness ==
    \E p \in Procs :
        /\ pc[p] = "done" /\ op[p] = "upd" /\ result[p] = "InvalidInput"
        /\ txn[p] = EmptyDb /\ db.goats # {}
        /\ pool.idle = pool.size

\* C38: every handler holds at most one pooled connection (the connections
\* out of the pool are exactly those of the handlers at work), is never inside
\* pool.get() while it holds one, and has given it back when it returns; and
\* for every pool size, every request that has asked for a connection or is at
\* work completes with a result or an error.
C38_OneConnectionAndCompletes ==
    /\ [](\A p \in Procs : p \in pool.waiting => p \notin Held)
    /\ [](pool.idle >= 0 /\ pool.idle + Cardinality(Held) = pool.size)
    /\ \A p \in Procs : (p \in pool.waiting \/ p \in Held) ~> (pc[p] = "done")

\* a pool of one connection: one request holds it inside its transaction and
\* another request is waiting in pool.get()
C38_Witness ==
    /\ pool.size = 1
    /\ \E p, q \in Procs : pc[p] \in InTxnPcs /\ q \in pool.waiting

C35_UpdateOneGoatOnly ==
    [][\A p \in Procs :
          (Ended(p, {"upd_links"}) /\ result'[p] = "Ok") =>
              \E g \in Ids(db.goats) :
                  \A r \in db.goats :
                      r.id # g =>
                          /\ r \in db'.goats
                          /\ LinksOf(db'.goat_vaccines, r.id) = LinksOf(db.goat_vaccines, r.id)
                          /\ LinksOf(db'.goat_diseases, r.id) = LinksOf(db.goat_diseases, r.id)
      ]_vars

\* C36: whatever was inserted and deleted before, the goat of a successful
\* insert, loaded from the store the insert commits, has the vaccinations and
\* diseases of its request and no other: for a request whose references are
\* all by name, as many as the request lists, under the names it lists.
C36_LoadedAfterInsertExact ==
    [][\A p \in Procs : Ended(p, {"add_links"}) =>
       \A vs \in VaccLists, ds \in DisLists :
          (/\ AddLinks(p, vs, ds) /\ result'[p] = "Created"
           /\ \A i \in 1..Len(vs) : vs[i].id = NoId) =>
              /\ BagCardinality(fetch_vaccines(db', gid[p])) = Len(vs)
              /\ {r.name : r \in DOMAIN fetch_vaccines(db', gid[p])} = ByName(vs)
              /\ BagCardinality(fetch_diseases(db', gid[p])) = Len(ds)
              /\ {r.name : r \in DOMAIN fetch_diseases(db', gid[p])} = ByName(ds)
      ]_vars

\* C34: a failure while stored data is read is returned and never replaced
\* by a default.  When the read of the last_bred column fails, or the read of
\* a joined vaccine row fails, load_goat_details returns DbError and no goat.
C34_ReadFailureReturned ==
    (/\ codec.op = "load"
     /\ ("last_bred" \in codec.arg.unread \/ codec.arg.failing # {})) =>
        ~codec.out.ok /\ codec.out.error = "DbError"

\* C37: writing a goat and reading it back keeps every scalar field.  The
\* goat that load_goat_details returns for the row written with the goat's
\* parameters, when no read fails, has the breed, name, gender, offspring,
\* diet, health status and last-bred date of the goat written; an absent
\* last-bred date is read back absent.
C37_ScalarsRoundTrip ==
    (/\ codec.op = "load"
     /\ codec.arg.unread = {} /\ codec.arg.failing = {}) =>
        /\ codec.out.ok
        /\ codec.out.value.breed = codec.arg.goat.breed
        /\ codec.out.value.name = codec.arg.goat.name
        /\ codec.out.value.gender = codec.arg.goat.gender
        /\ codec.out.value.offspring = codec.arg.goat.offspring
        /\ codec.out.value.diet = codec.arg.goat.diet
        /\ codec.out.value.health_status = codec.arg.goat.health_status
        /\ codec.out.value.last_bred = codec.arg.goat.last_bred

====
